---- MODULE Spec2Model ----
(***************************************************************************)
(* chatterbox: hub (room directory, intent channels), rooms (member set,   *)
(* broadcast queue, fan-out loop) and client sessions (read loop, teardown,*)
(* write loop), each goroutine modelled as a process with a program        *)
(* counter and each channel as a bounded FIFO queue.                       *)
(***************************************************************************)
EXTENDS Integers, Sequences, FiniteSets, TLC

\* ---------------------------------------------------------------- bounds
\* Inbound frames the read loops handle, all sessions together.
MaxFrames == 3
\* Room objects that can be alive at once (rooms of the directory plus reaped
\* rooms whose fan-out goroutine has not returned yet).
MaxRoomObjs == 2
\* Capacity of the three intent channels of the hub (256 in the source).
hubChanBuffer == 1
\* Capacity of a room's broadcast channel (256 in the source).
roomBroadcastBuffer == 2
\* Capacity of a session's outbound channel (256 in the source).
sendBufferSize == 1
\* Sessions whose connection fails or is closed by the peer.
MaxDisconnects == 1
\* Callers of Hub.Stop (each calls it once).
MaxStops == 2

\* ------------------------------------------------------------- universes
Clients == {"c1", "c2"}
RoomNames == {"r1", "r2"}
RoomIds == 1 .. MaxRoomObjs
NoRoom == 0
Stoppers == 1 .. MaxStops

\* Client.Username: the display name given at upgrade.
Username(c) == IF c = "c1" THEN "alice" ELSE "bob"

MsgChat == "chat"
MsgJoin == "join"
MsgLeave == "leave"
MsgHistory == "history"
MsgPresence == "presence"
MsgError == "error"

\* ---------------------------------------------------------------- frames
\* One record shape for every encoded value (domain.Message, HistoryMessage,
\* PresenceMessage, ErrorMessage); fields a variant lacks hold the zero value.
\* The tag is no part of the encoded value: when the run is traced it names
\* the entry of a room's broadcast queue the frame was: <<room object,
\* position in the queue>>, both counted from 1.
NoTag == <<0, 0>>

Message(type, room, user, text, ts) ==
    [type |-> type, room |-> room, user |-> user, text |-> text,
     timestamp |-> ts, message |-> "", messages |-> <<>>, users |-> {},
     tag |-> NoTag]

HistoryMessage(room, msgs) ==
    [type |-> MsgHistory, room |-> room, user |-> "", text |-> "",
     timestamp |-> 0, message |-> "", messages |-> msgs, users |-> {},
     tag |-> NoTag]

PresenceMessage(room, users) ==
    [type |-> MsgPresence, room |-> room, user |-> "", text |-> "",
     timestamp |-> 0, message |-> "", messages |-> <<>>, users |-> users,
     tag |-> NoTag]

ErrorMessage(message) ==
    [type |-> MsgError, room |-> "", user |-> "", text |-> "",
     timestamp |-> 0, message |-> message, messages |-> <<>>, users |-> {},
     tag |-> NoTag]

\* Frames a peer writes to its connection: join, leave and chat for a room
\* (the user field of an inbound frame is whatever the peer chose to write).
InFrames ==
    { Message(t, r, u, x, 0) :
        t \in {MsgJoin, MsgLeave}, r \in RoomNames, u \in {""}, x \in {""} }
    \cup
    { Message(MsgChat, r, u, "hello", 0) :
        r \in RoomNames, u \in {"", "mallory"} }

\* The bytes `not json`, which json.Unmarshal rejects: the one inbound value
\* that is no decoded message. It is kept in the record shape of the frames,
\* so that it can be compared with them, with the bytes in the type field.
NotJSON == Message("not json", "", "", "", 0)

\* A json.Unmarshal that takes any bytes for a message.
DecodesAnything(f) == TRUE

\* json.Unmarshal of an inbound frame succeeds.
Decodes(f) == f # NotJSON

\* Frames a peer writes that handleMessage answers with an error whatever the
\* session's rooms are: bytes that do not decode, a type that is none of
\* join, leave and chat, and a join, leave or chat that lacks its room or text.
BadFrames ==
    { NotJSON,
      Message("ping", "r1", "", "", 0),
      Message(MsgJoin, "", "", "", 0),
      Message(MsgLeave, "", "", "", 0),
      Message(MsgChat, "", "", "hello", 0),
      Message(MsgChat, "r1", "", "", 0) }

\* "unknown message type: " + msg.Type, for the types the frames above use.
UnknownTypeText(t) ==
    CASE t = "ping" -> "unknown message type: ping"
      [] t = "not json" -> "unknown message type: not json"
      [] OTHER -> "unknown message type: "

\* ----------------------------------------------------------------- state
VARIABLES
    \* Hub
    rooms,        \* Hub.rooms: room name -> room object id, NoRoom when absent
    register,     \* Hub.register channel
    unregister,   \* Hub.unregister channel
    message,      \* Hub.message channel
    store,        \* the message store: room name -> saved messages, oldest first
    maxRooms,     \* Hub.maxRooms
    maxHistory,   \* Hub.maxHistory
    hquit,        \* Hub.quit is closed
    hpc,          \* where the hub goroutine (Hub.Run) is
    hreq,         \* the intent the hub goroutine is handling
    \* Rooms
    robj,         \* room objects: members, broadcast channel, quit, Run's position
    \* Clients
    crooms,       \* Client.rooms
    send,         \* Client.send channel
    sendClosed,   \* Client.send is closed
    done,         \* Client.done is closed
    rpc,          \* where the ReadPump goroutine is
    rpend,        \* what ReadPump is about to send to the hub / teardown's snapshot
    nframes,      \* inbound frames read so far, all sessions together
    wpc,          \* where the WritePump goroutine is
    seen,         \* per session and room object, the queue position of the last
                  \* broadcast frame WritePump wrote (kept when the run is traced)
    traced,       \* whether the run is traced: broadcast frames are tagged
    faulty,       \* whether calls of the store can return an error
    created,      \* room objects created so far (counted when the run is traced)
    connClosed,   \* conn.Close() was called
    \* Shutdown
    spc,          \* where each caller of Hub.Stop is
    \* Process
    now,          \* the clock time.Now() reads
    crashed,      \* an unrecovered panic ended the process
    got           \* what the last direct call of Store.History returned

\* Set at construction, never assigned afterwards.
cfgVars == <<maxRooms, maxHistory, traced, faulty>>
chanVars == <<register, unregister, message>>
hubVars == <<rooms, chanVars, store, hquit, hpc, hreq>>
readVars == <<crooms, done, rpc, rpend, nframes>>
writeVars == <<wpc, seen>>
closeVars == <<sendClosed, connClosed>>
clientVars == <<readVars, writeVars, closeVars, send>>
vars == <<cfgVars, hubVars, robj, created, spc, clientVars, now, crashed, got>>

\* ------------------------------------------------------------------ rooms
\* A slot of the room-object pool that holds no room.
FreeRoom ==
    [name |-> "", clients |-> {}, broadcast |-> <<>>, quit |-> FALSE,
     pc |-> "free", msg |-> ErrorMessage(""), pending |-> {},
     gen |-> 0, entered |-> 0, stopOnce |-> FALSE, rlock |-> FALSE]

\* NewRoom followed by `go r.Run()`.
NewRoom(name) ==
    [name |-> name, clients |-> {}, broadcast |-> <<>>, quit |-> FALSE,
     pc |-> "select", msg |-> ErrorMessage(""), pending |-> {},
     gen |-> IF traced THEN created + 1 ELSE 0, entered |-> 0,
     stopOnce |-> FALSE, rlock |-> FALSE]

\* The request slot of the hub goroutine between two intents.
NoReq ==
    [client |-> "", room |-> "", r |-> NoRoom, msg |-> ErrorMessage(""),
     err |-> FALSE]

\* The outcomes of a call of the store: TRUE when it returns no error.
StoreOutcomes == IF faulty THEN BOOLEAN ELSE {TRUE}

\* No direct call of Store.History has returned since the last Save.
NoGot == [room |-> "", limit |-> 0, msgs |-> <<>>, called |-> FALSE]

\* What a read loop holds between two frames.
NoPend == [req |-> [client |-> "", room |-> ""], rooms |-> {}]

FreeIds == { i \in RoomIds : robj[i].pc = "free" }

\* len(h.rooms)
LenRooms == Cardinality({ n \in RoomNames : rooms[n] # NoRoom })

\* Room.ClientCount
ClientCount(r) == Cardinality(robj[r].clients)

\* A user list that leaves out the session a Room.Join is running for.
UsersButJoiner(r) == { Username(c) : c \in robj[r].clients \ {hreq.client} }

\* Room.Users: the user names of the members (the source lists them in map
\* order, which is unspecified).
Users(r) == { Username(c) : c \in robj[r].clients }

\* ------------------------------------------------------------------ store
\* The rows of a room in the order of `ORDER BY created_at`, oldest first:
\* row k comes after the rows with an earlier timestamp (rows saved with the
\* same timestamp are taken in the order of their insertion).
ByCreatedAt(msgs) ==
    LET before(j, k) ==
            \/ msgs[j].timestamp < msgs[k].timestamp
            \/ msgs[j].timestamp = msgs[k].timestamp /\ j < k
        place(k) == 1 + Cardinality({ j \in 1 .. Len(msgs) : before(j, k) })
    IN [p \in 1 .. Len(msgs) |->
           msgs[CHOOSE k \in 1 .. Len(msgs) : place(k) = p]]

\* Store.History(room, limit) of the SQLite store: the rows of the room by
\* created_at, newest first, cut by `LIMIT ?`, then reversed to oldest first.
\* A negative LIMIT is no limit in SQLite.
History(room, limit) ==
    LET msgs == ByCreatedAt(store[room])
    IN IF limit >= 0 /\ Len(msgs) > limit
       THEN SubSeq(msgs, Len(msgs) - limit + 1, Len(msgs))
       ELSE msgs

\* ------------------------------------------------------------ Client.Send
\* The select of Client.Send picks among the cases that can proceed: the send
\* on c.send (it panics when the channel is closed, proceeds when the buffer
\* has space), the receive on c.done (once closed), and default otherwise.
SendOutcomes(c) ==
    LET onSend == IF sendClosed[c] THEN {"panic"}
                  ELSE IF Len(send[c]) < sendBufferSize THEN {"enqueue"}
                  ELSE {}
        onDone == IF done[c] THEN {"dropped"} ELSE {}
    IN IF onSend \cup onDone = {} THEN {"full"} ELSE onSend \cup onDone

\* The value of `send` after Client.Send(data) took outcome o.
SendResult(c, data, o) ==
    IF o = "enqueue" THEN [send EXCEPT ![c] = Append(@, data)] ELSE send

TypeOK ==
    /\ rooms \in [RoomNames -> RoomIds \cup {NoRoom}]
    /\ maxRooms \in Nat
    /\ hquit \in BOOLEAN
    /\ crooms \in [Clients -> SUBSET RoomNames]
    /\ sendClosed \in [Clients -> BOOLEAN]
    /\ done \in [Clients -> BOOLEAN]
    /\ crashed \in BOOLEAN

\* The state after hub.New, `go h.Run()` and the upgrade of every session
\* (client.New, go ReadPump, go WritePump), but for the configuration.
StartWith(saved) ==
    /\ rooms = [n \in RoomNames |-> NoRoom]
    /\ register = <<>>
    /\ unregister = <<>>
    /\ message = <<>>
    /\ store = saved
    /\ hquit = FALSE
    /\ hpc = "select"
    /\ hreq = NoReq
    /\ robj = [i \in RoomIds |-> FreeRoom]
    /\ created = 0
    /\ spc = [k \in Stoppers |-> "idle"]
    /\ crooms = [c \in Clients |-> {}]
    /\ send = [c \in Clients |-> <<>>]
    /\ sendClosed = [c \in Clients |-> FALSE]
    /\ done = [c \in Clients |-> FALSE]
    /\ rpc = [c \in Clients |-> "read"]
    /\ rpend = [c \in Clients |-> NoPend]
    /\ nframes = 0
    /\ wpc = [c \in Clients |-> "run"]
    /\ seen = [c \in Clients |-> {}]
    /\ connClosed = [c \in Clients |-> FALSE]
    /\ now = 1
    /\ crashed = FALSE
    /\ got = NoGot

\* The same over a store that holds no message yet.
Start == StartWith([n \in RoomNames |-> <<>>])

\* hub.New(store, 1, 1): a directory of one room, history frames of one message.
Init ==
    /\ Start
    /\ maxRooms = 1
    /\ maxHistory = 1
    /\ traced = FALSE
    /\ faulty = FALSE

\* ------------------------------------------------ client: ReadPump, teardown
\* A handleMessage that registers every join, also for a room the session
\* already has.
DispatchRejoins(c, f) ==
    CASE ~Decodes(f) -> "error"
      [] f.type = MsgJoin ->
           IF f.room = "" THEN "error" ELSE "register"
      [] f.type = MsgLeave ->
           IF f.room = "" THEN "error" ELSE "unregister"
      [] f.type = MsgChat ->
           IF f.room = "" \/ f.text = "" THEN "error"
           ELSE IF f.room \notin crooms[c] THEN "error"
           ELSE "route"
      [] OTHER -> "error"

\* A handleMessage that routes a chat without looking at the session's rooms.
DispatchRoutesAnyChat(c, f) ==
    CASE ~Decodes(f) -> "error"
      [] f.type = MsgJoin ->
           IF f.room = "" THEN "error"
           ELSE IF f.room \in crooms[c] THEN "ignore"
           ELSE "register"
      [] f.type = MsgLeave ->
           IF f.room = "" THEN "error" ELSE "unregister"
      [] f.type = MsgChat ->
           IF f.room = "" \/ f.text = "" THEN "error" ELSE "route"
      [] OTHER -> "error"

\* The switch of Client.handleMessage on an inbound frame: which branch runs.
Dispatch(c, f) ==
    CASE ~Decodes(f) -> "error"
      [] f.type = MsgJoin ->
           IF f.room = "" THEN "error"
           ELSE IF f.room \in crooms[c] THEN "ignore"
           ELSE "register"
      [] f.type = MsgLeave ->
           IF f.room = "" THEN "error" ELSE "unregister"
      [] f.type = MsgChat ->
           IF f.room = "" \/ f.text = "" THEN "error"
           ELSE IF f.room \notin crooms[c] THEN "error"
           ELSE "route"
      [] OTHER -> "error"

\* The text of the error frame Client.handleMessage answers with.
ErrorText(c, f) ==
    CASE ~Decodes(f) -> "invalid JSON"
      [] f.type \in {MsgJoin, MsgLeave} -> "room name required"
      [] f.type = MsgChat ->
           IF f.room = "" \/ f.text = "" THEN "room and text required"
           ELSE "not in room"
      [] OTHER -> UnknownTypeText(f.type)

\* Client.rooms after handleMessage(f).
RoomsAfter(c, f) ==
    CASE Dispatch(c, f) = "register" -> crooms[c] \cup {f.room}
      [] Dispatch(c, f) = "unregister" -> crooms[c] \ {f.room}
      [] OTHER -> crooms[c]

\* A handleMessage that routes the chat with the user the peer wrote.
StampKeepsUser(c, f) == Message(MsgChat, f.room, f.user, f.text, now)

\* The chat handleMessage hands to Hub.RouteMessage: user and timestamp are
\* stamped by the session.
Stamp(c, f) == Message(MsgChat, f.room, Username(c), f.text, now)

\* The intent handleMessage(f) sends to the hub, as the channel element.
Intent(c, f) ==
    IF Dispatch(c, f) = "route"
    THEN [message |-> Stamp(c, f), sender |-> c]
    ELSE [client |-> c, room |-> f.room]

\* Whether the channel an intent of kind k goes to is full (the send blocks).
Full(k) ==
    CASE k = "register" -> Len(register) >= hubChanBuffer
      [] k = "unregister" -> Len(unregister) >= hubChanBuffer
      [] k = "route" -> Len(message) >= hubChanBuffer
      [] OTHER -> FALSE

\* The three intent channels after a send of `req` on the channel of kind k.
Queued(k, req) ==
    /\ register' = IF k = "register" THEN Append(register, req) ELSE register
    /\ unregister' = IF k = "unregister" THEN Append(unregister, req) ELSE unregister
    /\ message' = IF k = "route" THEN Append(message, req) ELSE message

\* ReadPump reads one frame and runs handleMessage. The call into the hub
\* (Hub.Register, Hub.Unregister, Hub.RouteMessage) is a channel send: it
\* completes at once when the channel has space, and otherwise the read loop
\* waits in it, holding the intent.
ReadMessage(c, f) ==
    LET k == Dispatch(c, f) IN
    /\ ~crashed
    /\ rpc[c] = "read"
    /\ nframes < MaxFrames
    /\ nframes' = nframes + 1
    /\ crooms' = [crooms EXCEPT ![c] = RoomsAfter(c, f)]
    /\ now' = IF k = "route" THEN now + 1 ELSE now
    /\ IF Full(k)
       THEN /\ rpc' = [rpc EXCEPT ![c] = k]
            /\ rpend' = [rpend EXCEPT ![c] = [NoPend EXCEPT !.req = Intent(c, f)]]
            /\ UNCHANGED chanVars
       ELSE /\ Queued(k, Intent(c, f))
            /\ UNCHANGED <<rpc, rpend>>
    /\ \E o \in (IF k = "error" THEN SendOutcomes(c) ELSE {"none"}) :
         /\ send' = IF k = "error"
                    THEN SendResult(c, ErrorMessage(ErrorText(c, f)), o)
                    ELSE send
         /\ crashed' = (o = "panic")
    /\ UNCHANGED <<cfgVars, got, created, spc, rooms, store, hquit, hpc, hreq, robj, done,
                   writeVars, closeVars>>

\* A read loop waiting in Hub.Register: h.register has space again.
Register(c) ==
    /\ ~crashed
    /\ rpc[c] = "register"
    /\ ~Full("register")
    /\ Queued("register", rpend[c].req)
    /\ rpc' = [rpc EXCEPT ![c] = "read"]
    /\ rpend' = [rpend EXCEPT ![c] = NoPend]
    /\ UNCHANGED <<cfgVars, got, created, spc, rooms, store, hquit, hpc, hreq, robj, crooms, done,
                   nframes, writeVars, closeVars, send, now, crashed>>

\* A read loop waiting in Hub.Unregister (leave frame): h.unregister has space.
Unregister(c) ==
    /\ ~crashed
    /\ rpc[c] = "unregister"
    /\ ~Full("unregister")
    /\ Queued("unregister", rpend[c].req)
    /\ rpc' = [rpc EXCEPT ![c] = "read"]
    /\ rpend' = [rpend EXCEPT ![c] = NoPend]
    /\ UNCHANGED <<cfgVars, got, created, spc, rooms, store, hquit, hpc, hreq, robj, crooms, done,
                   nframes, writeVars, closeVars, send, now, crashed>>

\* A read loop waiting in Hub.RouteMessage: h.message has space again.
RouteMessage(c) ==
    /\ ~crashed
    /\ rpc[c] = "route"
    /\ ~Full("route")
    /\ Queued("route", rpend[c].req)
    /\ rpc' = [rpc EXCEPT ![c] = "read"]
    /\ rpend' = [rpend EXCEPT ![c] = NoPend]
    /\ UNCHANGED <<cfgVars, got, created, spc, rooms, store, hquit, hpc, hreq, robj, crooms, done,
                   nframes, writeVars, closeVars, send, now, crashed>>

\* conn.ReadMessage fails (read error, close frame, pong timeout): ReadPump
\* returns and its deferred teardown closes c.done and snapshots c.rooms.
ReadError(c) ==
    /\ ~crashed
    /\ rpc[c] = "read"
    /\ Cardinality({d \in Clients : rpc[d] \in {"teardown", "closing", "closed"}})
         < MaxDisconnects
    /\ done' = [done EXCEPT ![c] = TRUE]
    /\ rpc' = [rpc EXCEPT ![c] = "teardown"]
    /\ rpend' = [rpend EXCEPT ![c] = [NoPend EXCEPT !.rooms = crooms[c]]]
    /\ UNCHANGED <<cfgVars, got, created, spc, hubVars, robj, crooms, nframes, writeVars, closeVars,
                   send, now, crashed>>

\* The teardown loop: Hub.Unregister for the next room of the snapshot (the
\* snapshot is in map order: any order).
TeardownUnregister(c) ==
    /\ ~crashed
    /\ rpc[c] = "teardown"
    /\ ~Full("unregister")
    /\ \E room \in rpend[c].rooms :
         /\ Queued("unregister", [client |-> c, room |-> room])
         /\ rpend' = [rpend EXCEPT ![c].rooms = @ \ {room}]
    /\ UNCHANGED <<cfgVars, got, created, spc, rooms, store, hquit, hpc, hreq, robj, crooms, done,
                   rpc, nframes, writeVars, closeVars, send, now, crashed>>

\* A teardown that closes c.send while rooms of the snapshot are still to be
\* unregistered.
TeardownCloseEarly(c) ==
    /\ ~crashed
    /\ rpc[c] = "teardown"
    /\ sendClosed' = [sendClosed EXCEPT ![c] = TRUE]
    /\ rpc' = [rpc EXCEPT ![c] = "closing"]
    /\ rpend' = [rpend EXCEPT ![c] = NoPend]
    /\ UNCHANGED <<cfgVars, got, created, spc, hubVars, robj, crooms, done, nframes, writeVars,
                   connClosed, send, now, crashed>>

\* After the teardown loop: close(c.send). Closing a closed channel panics in
\* the ReadPump goroutine, which ends the process.
TeardownClose(c) ==
    /\ ~crashed
    /\ rpc[c] = "teardown"
    /\ rpend[c].rooms = {}
    /\ IF sendClosed[c]
       THEN crashed' = TRUE /\ UNCHANGED <<sendClosed, rpc, rpend>>
       ELSE /\ sendClosed' = [sendClosed EXCEPT ![c] = TRUE]
            /\ rpc' = [rpc EXCEPT ![c] = "closing"]
            /\ rpend' = [rpend EXCEPT ![c] = NoPend]
            /\ UNCHANGED crashed
    /\ UNCHANGED <<cfgVars, got, created, spc, hubVars, robj, crooms, done, nframes, writeVars,
                   connClosed, send, now>>

\* The last statement of teardown: c.conn.Close().
TeardownConnClose(c) ==
    /\ ~crashed
    /\ rpc[c] = "closing"
    /\ connClosed' = [connClosed EXCEPT ![c] = TRUE]
    /\ rpc' = [rpc EXCEPT ![c] = "closed"]
    /\ UNCHANGED <<cfgVars, got, created, spc, hubVars, robj, crooms, done, rpend, nframes,
                   writeVars, sendClosed, send, now, crashed>>

\* --------------------------------------------------------- client: WritePump
\* The trace of a session after its WritePump wrote a frame with tag t: for
\* each room object, the tag of the last broadcast frame written.
Wrote(tags, t) ==
    IF t = NoTag THEN tags
    ELSE { u \in tags : u[1] # t[1] } \cup {t}

\* WritePump receives a frame from c.send and writes it. A write on a closed
\* connection fails and WritePump returns; nothing reads c.send after that.
WriteMessage(c) ==
    /\ ~crashed
    /\ wpc[c] = "run"
    /\ send[c] # <<>>
    /\ IF connClosed[c]
       THEN /\ wpc' = [wpc EXCEPT ![c] = "exited"]
            /\ send' = [send EXCEPT ![c] = <<>>]
            /\ seen' = seen
       ELSE /\ seen' = [seen EXCEPT ![c] = Wrote(@, Head(send[c]).tag)]
            /\ send' = [send EXCEPT ![c] = Tail(@)]
            /\ wpc' = wpc
    /\ UNCHANGED <<cfgVars, got, created, spc, hubVars, robj, readVars, closeVars, now, crashed>>

\* WritePump finds c.send closed and empty, writes the close frame and
\* returns; its deferred function closes the connection.
WriteClosed(c) ==
    /\ ~crashed
    /\ wpc[c] = "run"
    /\ send[c] = <<>>
    /\ sendClosed[c]
    /\ wpc' = [wpc EXCEPT ![c] = "exited"]
    /\ connClosed' = [connClosed EXCEPT ![c] = TRUE]
    /\ UNCHANGED <<cfgVars, got, created, spc, hubVars, robj, readVars, sendClosed, send, seen,
                   now, crashed>>

\* ------------------------------------------------------------ hub: Hub.Run
\* The room object a directory entry points at.
InDirectory(i) == robj[i].pc # "free" /\ rooms[robj[i].name] = i

\* The smallest free slot: the address of the next room object.
NextId == CHOOSE i \in FreeIds : \A j \in FreeIds : i <= j

\* A call of Client.Send made by the hub goroutine, which has no recover: a
\* panic ends the process, otherwise the hub goes on at `next`.
HubSend(c, data, next) ==
    \E o \in SendOutcomes(c) :
        /\ send' = SendResult(c, data, o)
        /\ crashed' = (o = "panic")
        /\ hpc' = IF o = "panic" THEN hpc ELSE next
        /\ hreq' = IF o = "panic" \/ next # "select" THEN hreq ELSE NoReq

\* A capacity test that lets the directory grow one room past h.maxRooms.
DirectoryFullOffByOne == LenRooms > maxRooms

\* handleRegister's capacity test: len(h.rooms) >= h.maxRooms.
DirectoryFull == LenRooms >= maxRooms

\* Run receives from h.register; handleRegister looks the room up under h.mu
\* and creates it (NewRoom, go r.Run()) when the directory has space.
HubRecvRegister ==
    /\ ~crashed
    /\ hpc = "select"
    /\ register # <<>>
    /\ LET req == Head(register) IN
       /\ register' = Tail(register)
       /\ IF rooms[req.room] # NoRoom
          THEN /\ hreq' = [NoReq EXCEPT !.client = req.client, !.room = req.room,
                                        !.r = rooms[req.room]]
               /\ hpc' = "join"
               /\ UNCHANGED <<rooms, robj, created>>
          ELSE IF DirectoryFull
          THEN /\ hreq' = [NoReq EXCEPT !.client = req.client, !.room = req.room]
               /\ hpc' = "register_reject"
               /\ UNCHANGED <<rooms, robj, created>>
          ELSE /\ FreeIds # {}
               /\ robj' = [robj EXCEPT ![NextId] = NewRoom(req.room)]
               /\ created' = IF traced THEN created + 1 ELSE created
               /\ rooms' = [rooms EXCEPT ![req.room] = NextId]
               /\ hreq' = [NoReq EXCEPT !.client = req.client, !.room = req.room,
                                        !.r = NextId]
               /\ hpc' = "join"
    /\ UNCHANGED <<cfgVars, got, spc, unregister, message, store, hquit, clientVars,
                   now, crashed>>

\* handleRegister, directory full: the error frame to the registering client.
HubRegisterReject ==
    /\ ~crashed
    /\ hpc = "register_reject"
    /\ HubSend(hreq.client, ErrorMessage("max rooms reached"), "select")
    /\ UNCHANGED <<cfgVars, got, created, spc, rooms, chanVars, store, hquit, robj, readVars,
                   writeVars, closeVars, now>>

\* A Room.Join that gives up when the store fails: the joiner is a member,
\* but neither notification nor presence follows.
HubJoinAbortsOnError ==
    /\ ~crashed
    /\ hpc = "join"
    /\ robj' = [robj EXCEPT ![hreq.r].clients = @ \cup {hreq.client}]
    /\ \E ok \in StoreOutcomes :
         /\ hpc' = IF ~ok THEN "select"
                   ELSE IF Len(History(hreq.room, maxHistory)) > 0
                   THEN "join_history" ELSE "join_broadcast"
         /\ hreq' = IF ok THEN hreq ELSE NoReq
    /\ UNCHANGED <<cfgVars, got, created, spc, rooms, chanVars, store, hquit, clientVars, now,
                   crashed>>

\* Room.Join: r.clients[c] = true under r.mu. Then the store is asked for
\* the history: the frame is sent when the call returns no error and there
\* are messages; an error is logged and Join goes on.
HubJoin ==
    /\ ~crashed
    /\ hpc = "join"
    /\ robj' = [robj EXCEPT ![hreq.r].clients = @ \cup {hreq.client}]
    /\ \E ok \in StoreOutcomes :
         /\ hpc' = IF ok /\ Len(History(hreq.room, maxHistory)) > 0
                   THEN "join_history" ELSE "join_broadcast"
         /\ hreq' = [hreq EXCEPT !.err = ~ok]
    /\ UNCHANGED <<cfgVars, got, created, spc, rooms, chanVars, store, hquit, clientVars, now,
                   crashed>>

\* Room.Join: the history frame is sent to the joiner.
HubJoinHistory ==
    /\ ~crashed
    /\ hpc = "join_history"
    /\ HubSend(hreq.client,
               HistoryMessage(hreq.room, History(hreq.room, maxHistory)),
               "join_broadcast")
    /\ UNCHANGED <<cfgVars, got, created, spc, rooms, chanVars, store, hquit, robj, readVars,
                   writeVars, closeVars, now>>

\* The send `r.broadcast <- data` of Room.Join, Room.Leave and Room.Broadcast:
\* the frame goes to the tail of the queue of room object r.
Enter(r, f) ==
    IF traced
    THEN [robj EXCEPT ![r].broadcast =
                          Append(@, [f EXCEPT !.tag = <<robj[r].gen,
                                                        robj[r].entered + 1>>]),
                      ![r].entered = @ + 1]
    ELSE [robj EXCEPT ![r].broadcast = Append(@, f)]

\* Room.Join: the join notification goes on r.broadcast (blocks while full).
HubJoinBroadcast ==
    /\ ~crashed
    /\ hpc = "join_broadcast"
    /\ Len(robj[hreq.r].broadcast) < roomBroadcastBuffer
    /\ robj' = Enter(hreq.r,
                     Message(MsgJoin, hreq.room, Username(hreq.client), "", 0))
    /\ hpc' = "join_presence"
    /\ UNCHANGED <<cfgVars, got, created, spc, rooms, chanVars, store, hquit, hreq, clientVars, now,
                   crashed>>

\* Room.Join -> sendPresence: the user list, sent to the joiner.
HubJoinPresence ==
    /\ ~crashed
    /\ hpc = "join_presence"
    /\ HubSend(hreq.client, PresenceMessage(hreq.room, Users(hreq.r)), "select")
    /\ UNCHANGED <<cfgVars, got, created, spc, rooms, chanVars, store, hquit, robj, readVars,
                   writeVars, closeVars, now>>

\* Run receives from h.unregister; handleUnregister looks the room up under
\* h.mu and returns when the directory does not hold it; otherwise Room.Leave
\* deletes the client from r.clients under r.mu.
HubRecvUnregister ==
    /\ ~crashed
    /\ hpc = "select"
    /\ unregister # <<>>
    /\ LET req == Head(unregister) IN
       /\ unregister' = Tail(unregister)
       /\ IF rooms[req.room] = NoRoom
          THEN UNCHANGED <<hpc, hreq, robj>>
          ELSE /\ hreq' = [NoReq EXCEPT !.client = req.client, !.room = req.room,
                                        !.r = rooms[req.room]]
               /\ robj' = [robj EXCEPT ![rooms[req.room]].clients = @ \ {req.client}]
               /\ hpc' = "leave_broadcast"
    /\ UNCHANGED <<cfgVars, got, created, spc, rooms, register, message, store, hquit, clientVars,
                   now, crashed>>

\* Room.Leave: the leave notification goes on r.broadcast (blocks while full).
HubLeaveBroadcast ==
    /\ ~crashed
    /\ hpc = "leave_broadcast"
    /\ Len(robj[hreq.r].broadcast) < roomBroadcastBuffer
    /\ robj' = Enter(hreq.r,
                     Message(MsgLeave, hreq.room, Username(hreq.client), "", 0))
    /\ hpc' = "cleanup"
    /\ UNCHANGED <<cfgVars, got, created, spc, rooms, chanVars, store, hquit, hreq, clientVars, now,
                   crashed>>

\* Room.Stop without the sync.Once: every call closes r.quit.
RoomStopEveryCall(r) == [r EXCEPT !.quit = TRUE]

\* Room.Stop: stopOnce.Do runs close(r.quit) on the first call only.
RoomStop(r) ==
    IF r.stopOnce THEN r ELSE [r EXCEPT !.stopOnce = TRUE, !.quit = TRUE]

\* Room.Stop panics when it closes a quit channel that is closed already.
RoomStopPanics(r) == ~r.stopOnce /\ r.quit

\* A room object after Room.Stop once the directory has dropped it: its Run
\* goroutine finishes the fan-out it is in, if any; it has no members and
\* nothing refers to it, so whatever else it does changes nothing.
Stopped(i) ==
    IF robj[i].pc = "fanout"
    THEN [RoomStop(robj[i]) EXCEPT !.broadcast = <<>>]
    ELSE FreeRoom

\* An auto-cleanup that stops the empty room but leaves it in the directory.
HubCleanupKeepsEntry ==
    /\ ~crashed
    /\ hpc = "cleanup"
    /\ IF ClientCount(hreq.r) = 0
       THEN robj' = [robj EXCEPT ![hreq.r] = RoomStop(@)]
       ELSE UNCHANGED robj
    /\ hpc' = "select"
    /\ hreq' = NoReq
    /\ UNCHANGED <<cfgVars, got, created, spc, rooms, chanVars, store, hquit, clientVars, now, crashed>>

\* An auto-cleanup that does not look at ClientCount: the room is stopped and
\* deleted whenever a session has left it.
HubCleanupAlways ==
    /\ ~crashed
    /\ hpc = "cleanup"
    /\ robj' = [robj EXCEPT ![hreq.r] = [RoomStop(@) EXCEPT !.clients = {}]]
    /\ rooms' = [rooms EXCEPT ![hreq.room] = NoRoom]
    /\ hpc' = "select"
    /\ hreq' = NoReq
    /\ UNCHANGED <<cfgVars, got, created, spc, chanVars, store, hquit, clientVars, now,
                   crashed>>

\* handleUnregister: auto-cleanup. ClientCount is read, and when it is zero
\* the room is stopped and deleted under h.mu (only the hub goroutine changes
\* the member set, so the two reads of ClientCount agree).
HubCleanup ==
    /\ ~crashed
    /\ hpc = "cleanup"
    /\ IF ClientCount(hreq.r) = 0 /\ RoomStopPanics(robj[hreq.r])
       THEN /\ crashed' = TRUE
            /\ UNCHANGED <<robj, rooms, hpc, hreq>>
       ELSE /\ IF ClientCount(hreq.r) = 0
               THEN /\ robj' = [robj EXCEPT ![hreq.r] = Stopped(hreq.r)]
                    /\ rooms' = [rooms EXCEPT ![hreq.room] = NoRoom]
               ELSE UNCHANGED <<robj, rooms>>
            /\ hpc' = "select"
            /\ hreq' = NoReq
            /\ UNCHANGED crashed
    /\ UNCHANGED <<cfgVars, got, created, spc, chanVars, store, hquit, clientVars, now>>

\* Store.Save: the message is appended to the messages of its room.
Save(msg) == [store EXCEPT ![msg.room] = Append(@, msg)]

\* A handleMessage that returns when Save fails: the chat is not broadcast.
HubRecvMessageDropsOnError ==
    /\ ~crashed
    /\ hpc = "select"
    /\ message # <<>>
    /\ LET req == Head(message) IN
       /\ message' = Tail(message)
       /\ IF rooms[req.message.room] = NoRoom
          THEN /\ hreq' = [NoReq EXCEPT !.client = req.sender,
                                        !.room = req.message.room]
               /\ hpc' = "message_error"
               /\ store' = store
          ELSE \E ok \in StoreOutcomes :
               /\ hreq' = IF ok
                          THEN [NoReq EXCEPT !.client = req.sender,
                                             !.room = req.message.room,
                                             !.r = rooms[req.message.room],
                                             !.msg = req.message]
                          ELSE NoReq
               /\ hpc' = IF ok THEN "message_broadcast" ELSE "select"
               /\ store' = IF ok THEN Save(req.message) ELSE store
    /\ UNCHANGED <<cfgVars, got, created, spc, rooms, register, unregister, hquit, robj, clientVars,
                   now, crashed>>

\* Run receives from h.message; handleMessage looks the room up and, when it
\* exists, saves the message to the store; an error of Save is logged and
\* handleMessage goes on.
HubRecvMessage ==
    /\ ~crashed
    /\ hpc = "select"
    /\ message # <<>>
    /\ LET req == Head(message) IN
       /\ message' = Tail(message)
       /\ IF rooms[req.message.room] = NoRoom
          THEN /\ hreq' = [NoReq EXCEPT !.client = req.sender,
                                        !.room = req.message.room]
               /\ hpc' = "message_error"
               /\ store' = store
          ELSE \E ok \in StoreOutcomes :
               /\ hreq' = [NoReq EXCEPT !.client = req.sender,
                                        !.room = req.message.room,
                                        !.r = rooms[req.message.room],
                                        !.msg = req.message,
                                        !.err = ~ok]
               /\ hpc' = "message_broadcast"
               /\ store' = IF ok THEN Save(req.message) ELSE store
    /\ UNCHANGED <<cfgVars, got, created, spc, rooms, register, unregister, hquit, robj, clientVars,
                   now, crashed>>

\* A handleMessage that answers a chat for an absent room by telling every
\* session with space in its outbound queue.
HubMessageErrorToAll ==
    /\ ~crashed
    /\ hpc = "message_error"
    /\ send' = [c \in Clients |->
                  IF ~sendClosed[c] /\ Len(send[c]) < sendBufferSize
                  THEN Append(send[c], ErrorMessage("room not found"))
                  ELSE send[c]]
    /\ hpc' = "select"
    /\ hreq' = NoReq
    /\ UNCHANGED <<cfgVars, got, created, spc, rooms, chanVars, store, hquit, robj, readVars,
                   writeVars, closeVars, now, crashed>>

\* handleMessage, room absent: the error frame to the sender.
HubMessageError ==
    /\ ~crashed
    /\ hpc = "message_error"
    /\ HubSend(hreq.client, ErrorMessage("room not found"), "select")
    /\ UNCHANGED <<cfgVars, got, created, spc, rooms, chanVars, store, hquit, robj, readVars,
                   writeVars, closeVars, now>>

\* handleMessage -> Room.Broadcast: the chat goes on r.broadcast.
HubMessageBroadcast ==
    /\ ~crashed
    /\ hpc = "message_broadcast"
    /\ Len(robj[hreq.r].broadcast) < roomBroadcastBuffer
    /\ robj' = Enter(hreq.r, hreq.msg)
    /\ hpc' = "select"
    /\ hreq' = NoReq
    /\ UNCHANGED <<cfgVars, got, created, spc, rooms, chanVars, store, hquit, clientVars, now,
                   crashed>>

\* ---------------------------------------------------------- room: Room.Run
\* What is left of a room object when its Run goroutine returns: a room the
\* directory still holds stays, a reaped one is garbage.
Returned(i) ==
    IF InDirectory(i)
    THEN [robj[i] EXCEPT !.pc = "exited", !.msg = ErrorMessage(""), !.pending = {}]
    ELSE FreeRoom

\* Run after the last Send of a fan-out: back at the select (a reaped room
\* has nothing left to do there but to return).
Served(i) ==
    IF InDirectory(i)
    THEN [robj[i] EXCEPT !.pc = "select", !.msg = ErrorMessage(""), !.pending = {}]
    ELSE FreeRoom

\* A fan-out loop that takes the newest frame of the queue instead of the
\* oldest.
RoomRecvNewestFirst(i) ==
    LET q == robj[i].broadcast
        rest == SubSeq(q, 1, Len(q) - 1)
    IN
    /\ ~crashed
    /\ robj[i].pc = "select"
    /\ q # <<>>
    /\ robj' = [robj EXCEPT ![i] =
                  IF robj[i].clients = {}
                  THEN [@ EXCEPT !.broadcast = rest]
                  ELSE [@ EXCEPT !.broadcast = rest,
                                 !.msg = q[Len(q)],
                                 !.pending = robj[i].clients,
                                 !.pc = "fanout"]]
    /\ UNCHANGED <<cfgVars, got, created, spc, hubVars, clientVars, now, crashed>>

\* A fan-out that snapshots every session of the process instead of the
\* members of the room.
RoomRecvEverySession(i) ==
    /\ ~crashed
    /\ robj[i].pc = "select"
    /\ robj[i].broadcast # <<>>
    /\ robj' = [robj EXCEPT ![i] =
                  [@ EXCEPT !.broadcast = Tail(@),
                            !.msg = Head(robj[i].broadcast),
                            !.pending = Clients,
                            !.pc = "fanout"]]
    /\ UNCHANGED <<cfgVars, got, created, spc, hubVars, clientVars, now, crashed>>

\* The fan-out that ranges over r.clients itself: Run keeps the read lock on
\* r.mu until the last Send has returned.
SnapshotKeepsLock(r) == [r EXCEPT !.pending = r.clients, !.rlock = TRUE]

\* Run copies r.clients into a local slice between r.mu.RLock() and
\* r.mu.RUnlock(): the field rlock tells whether Run holds the read lock.
Snapshot(r) == [r EXCEPT !.pending = r.clients, !.rlock = FALSE]

\* Run receives a frame from r.broadcast and snapshots the members under r.mu.
RoomRecv(i) ==
    /\ ~crashed
    /\ robj[i].pc = "select"
    /\ robj[i].broadcast # <<>>
    /\ robj' = [robj EXCEPT ![i] =
                  IF robj[i].clients = {}
                  THEN [@ EXCEPT !.broadcast = Tail(@)]
                  ELSE [Snapshot(robj[i]) EXCEPT
                                 !.broadcast = Tail(@),
                                 !.msg = Head(robj[i].broadcast),
                                 !.pc = "fanout"]]
    /\ UNCHANGED <<cfgVars, got, created, spc, hubVars, clientVars, now, crashed>>

\* Run calls Send on the next client of the snapshot (the snapshot is in map
\* order: any order). A panic in Send is recovered by Run's deferred function,
\* after which Run has returned.
RoomSend(i) ==
    /\ ~crashed
    /\ robj[i].pc = "fanout"
    /\ \E c \in robj[i].pending : \E o \in SendOutcomes(c) :
         /\ send' = SendResult(c, robj[i].msg, o)
         /\ robj' = [robj EXCEPT ![i] =
                       IF o = "panic" THEN Returned(i)
                       ELSE IF robj[i].pending = {c} THEN Served(i)
                       ELSE [@ EXCEPT !.pending = @ \ {c}]]
    /\ UNCHANGED <<cfgVars, got, created, spc, hubVars, readVars, writeVars, closeVars, now, crashed>>

\* Run's select takes the closed r.quit: Run returns.
RoomQuit(i) ==
    /\ ~crashed
    /\ robj[i].pc = "select"
    /\ robj[i].quit
    /\ robj' = [robj EXCEPT ![i] = Returned(i)]
    /\ UNCHANGED <<cfgVars, got, created, spc, hubVars, clientVars, now, crashed>>

\* ------------------------------------------------------- shutdown: Hub.Stop
\* Hub.Run's select takes the closed h.quit: Run returns.
HubQuit ==
    /\ ~crashed
    /\ hpc = "select"
    /\ hquit
    /\ hpc' = "exited"
    /\ UNCHANGED <<cfgVars, got, created, spc, rooms, chanVars, store, hquit, hreq,
                   robj, clientVars, now, crashed>>

\* Hub.Stop, first statement: close(h.quit). Closing a closed channel panics
\* in the caller's goroutine, which ends the process.
StopClose(k) ==
    /\ ~crashed
    /\ spc[k] = "idle"
    /\ IF hquit
       THEN crashed' = TRUE /\ UNCHANGED <<hquit, spc>>
       ELSE /\ hquit' = TRUE
            /\ spc' = [spc EXCEPT ![k] = "sweep"]
            /\ UNCHANGED crashed
    /\ UNCHANGED <<cfgVars, got, created, rooms, chanVars, store, hpc, hreq, robj,
                   clientVars, now>>

\* Hub.Stop, the sweep: under h.mu, Room.Stop on every room of the directory.
StopSweep(k) ==
    /\ ~crashed
    /\ spc[k] = "sweep"
    /\ IF \E i \in RoomIds : InDirectory(i) /\ RoomStopPanics(robj[i])
       THEN crashed' = TRUE /\ UNCHANGED <<robj, spc>>
       ELSE /\ robj' = [i \in RoomIds |->
                          IF InDirectory(i) THEN RoomStop(robj[i]) ELSE robj[i]]
            /\ spc' = [spc EXCEPT ![k] = "done"]
            /\ UNCHANGED crashed
    /\ UNCHANGED <<cfgVars, got, created, hubVars, clientVars, now>>

\* ------------------------------------------------------------ specification
\* One step of one goroutine; the peer of session c writes frames of the set
\* frames[c].
Step(frames) ==
    \/ \E c \in Clients : \E f \in frames[c] : ReadMessage(c, f)
    \/ \E c \in Clients : Register(c)
    \/ \E c \in Clients : Unregister(c)
    \/ \E c \in Clients : RouteMessage(c)
    \/ \E c \in Clients : ReadError(c)
    \/ \E c \in Clients : TeardownUnregister(c)
    \/ \E c \in Clients : TeardownClose(c)
    \/ \E c \in Clients : TeardownConnClose(c)
    \/ \E c \in Clients : WriteMessage(c)
    \/ \E c \in Clients : WriteClosed(c)
    \/ HubRecvRegister
    \/ HubRegisterReject
    \/ HubJoin
    \/ HubJoinHistory
    \/ HubJoinBroadcast
    \/ HubJoinPresence
    \/ HubRecvUnregister
    \/ HubLeaveBroadcast
    \/ HubCleanup
    \/ HubRecvMessage
    \/ HubMessageError
    \/ HubMessageBroadcast
    \/ \E i \in RoomIds : RoomRecv(i)
    \/ \E i \in RoomIds : RoomSend(i)

Next == Step([c \in Clients |-> InFrames])

Spec == Init /\ [][Next]_vars

\* hub.New(store, maxRooms, 1) with a directory of one room or of two: with
\* two, both room names can be live at once.
InitRooms ==
    /\ Start
    /\ maxRooms \in {1, 2}
    /\ maxHistory = 1
    /\ traced = FALSE
    /\ faulty = FALSE

\* Two peers in two rooms: the first joins, chats in and leaves r1, the second
\* joins either room and chats in r2.
RoomsFrames ==
    [c \in Clients |->
        IF c = "c1"
        THEN { f \in InFrames : f.user = "" /\ f.room = "r1" }
        ELSE { f \in InFrames :
                 /\ f.user = ""
                 /\ f.type = MsgJoin \/ (f.type = MsgChat /\ f.room = "r2") }]

NextRooms == Step(RoomsFrames)

SpecRooms == InitRooms /\ [][NextRooms]_vars

\* A traced run: hub.New(store, 1, 1), broadcast frames tagged with their
\* queue entry; the first peer joins, chats in and leaves r1, the second joins
\* either room and chats in r1.
InitTraced ==
    /\ Start
    /\ maxRooms = 1
    /\ maxHistory = 1
    /\ traced = TRUE
    /\ faulty = FALSE

TracedFrames ==
    [c \in Clients |->
        IF c = "c1"
        THEN { f \in InFrames : f.user = "" /\ f.room = "r1" }
        ELSE { f \in InFrames :
                 /\ f.user = ""
                 /\ f.type = MsgJoin \/ (f.type = MsgChat /\ f.room = "r1") }]

NextTraced == Step(TracedFrames)

SpecTraced == InitTraced /\ [][NextTraced]_vars

\* A run with shutdown over a database file an earlier run left: store.NewSQLite
\* opens it with one message of r1 saved, then hub.New(store, 1, 1).
InitStop ==
    /\ StartWith([n \in RoomNames |->
                    IF n = "r1"
                    THEN << Message(MsgChat, "r1", Username("c2"), "hello", 0) >>
                    ELSE <<>>])
    /\ maxRooms = 1
    /\ maxHistory = 1
    /\ traced = FALSE
    /\ faulty = FALSE

\* The first peer joins, chats in and leaves r1, the second joins r2.
StopFrames ==
    [c \in Clients |->
        IF c = "c1"
        THEN { f \in InFrames : f.user = "" /\ f.room = "r1" }
        ELSE { f \in InFrames : f.user = "" /\ f.room = "r2" /\ f.type = MsgJoin }]

NextStop ==
    \/ Step(StopFrames)
    \/ \E i \in RoomIds : RoomQuit(i)
    \/ HubQuit
    \/ \E k \in Stoppers : StopClose(k)
    \/ \E k \in Stoppers : StopSweep(k)

\* Hub.Stop is called by up to MaxStops callers while the sessions run.
SpecStop == InitStop /\ [][NextStop]_vars

\* A run over a database file that holds two messages of r1, with the history
\* limit as MAX_HISTORY gives it: any integer, which config.Load hands on as
\* it is.
InitHistory ==
    /\ StartWith([n \in RoomNames |->
                    IF n = "r1"
                    THEN << Message(MsgChat, "r1", "bob", "hello", -1),
                            Message(MsgChat, "r1", "alice", "hello", 0) >>
                    ELSE <<>>])
    /\ maxRooms = 1
    /\ maxHistory \in {-1, 0, 1, 2}
    /\ traced = FALSE
    /\ faulty = FALSE

\* The first peer joins, chats in and leaves r1, the second joins r2.
NextHistory == Step(StopFrames)

SpecHistory == InitHistory /\ [][NextHistory]_vars

\* A run over a store whose calls can fail, with one message of r1 saved:
\* the first peer joins, chats in and leaves r1, the second joins r2.
InitFaulty ==
    /\ StartWith([n \in RoomNames |->
                    IF n = "r1"
                    THEN << Message(MsgChat, "r1", "bob", "hello", 0) >>
                    ELSE <<>>])
    /\ maxRooms = 1
    /\ maxHistory = 1
    /\ traced = FALSE
    /\ faulty = TRUE

NextFaulty == Step(StopFrames)

SpecFaulty == InitFaulty /\ [][NextFaulty]_vars

\* A run in which the first peer also writes the frames handleMessage
\* rejects, over a store that holds one message of r1.
ErrFrames ==
    [c \in Clients |->
        IF c = "c1" THEN StopFrames[c] \cup BadFrames ELSE StopFrames[c]]

NextErrors == Step(ErrFrames)

SpecErrors == InitStop /\ [][NextErrors]_vars

\* A run in which the first peer writes its chats with a user of its choice:
\* none, the other session's name, a name no session has.
SpoofFrames ==
    [c \in Clients |->
        IF c = "c1"
        THEN StopFrames[c] \cup
             { Message(MsgChat, "r1", u, "hello", 0) : u \in {"bob", "mallory"} }
        ELSE StopFrames[c]]

NextSpoof == Step(SpoofFrames)

SpecSpoof == InitStop /\ [][NextSpoof]_vars

\* A run in which no session writes a leave for a room it joins: the first
\* peer joins and chats in r1 and writes a leave for r2, the second joins r2.
\* A session's Unregister for a room it joined comes from its teardown alone,
\* so each session queues, for a room, one Register, then its chats, then at
\* most one Unregister.
OrderFrames ==
    [c \in Clients |->
        IF c = "c1"
        THEN { f \in InFrames :
                 /\ f.user = ""
                 /\ \/ f.type \in {MsgJoin, MsgChat} /\ f.room = "r1"
                    \/ f.type = MsgLeave /\ f.room = "r2" }
        ELSE { f \in InFrames : f.type = MsgJoin /\ f.room = "r2" }]

NextOrder == Step(OrderFrames)

SpecOrder == InitStop /\ [][NextOrder]_vars

\* ------------------------------------------------ the store, called directly
\* The number of Save calls of a run of the store alone.
MaxSaved == 3

\* The history limits a caller passes.
Limits == 0 .. 3

\* The number of rows in the messages table.
Rows == Len(store["r1"]) + Len(store["r2"])

\* The k-th message a caller saves: a chat of a room with a timestamp of the
\* caller's choice (Save keeps a timestamp that is not zero); its text tells
\* the calls apart.
Saved(k, room, ts) ==
    Message(MsgChat, room, "alice",
            CASE k = 1 -> "first" [] k = 2 -> "second" [] OTHER -> "third", ts)

\* A caller saves a message.
StoreSave(room, ts) ==
    /\ Rows < MaxSaved
    /\ store' = Save(Saved(Rows + 1, room, ts))
    /\ got' = NoGot
    /\ UNCHANGED <<cfgVars, rooms, chanVars, hquit, hpc, hreq, robj, created, spc,
                   clientVars, now, crashed>>

\* A caller asks for the history of a room.
StoreHistory(room, limit) ==
    /\ got' = [room |-> room, limit |-> limit, msgs |-> History(room, limit),
               called |-> TRUE]
    /\ UNCHANGED <<cfgVars, hubVars, robj, created, spc, clientVars, now, crashed>>

NextStore ==
    \/ \E room \in RoomNames : \E ts \in 1 .. 2 : StoreSave(room, ts)
    \/ \E room \in RoomNames : \E limit \in Limits : StoreHistory(room, limit)

\* store.NewSQLite over a new database file, then Save and History calls in
\* any order.
SpecStore == Init /\ [][NextStore]_vars

\* ------------------------------------------------------------------ claims
\* The member set of the room the directory holds under name n.
Members(n) == IF rooms[n] = NoRoom THEN {} ELSE robj[rooms[n]].clients

\* The hub has handled every intent the sessions have queued so far: the three
\* channels are empty, Run is back at its select, and no read loop is inside a
\* call into the hub or inside the teardown loop.
HubIdle ==
    /\ ~crashed
    /\ hpc = "select"
    /\ register = <<>> /\ unregister = <<>> /\ message = <<>>
    /\ \A c \in Clients : rpc[c] \in {"read", "closed"}

\* C1: whenever the hub has handled the intents queued so far, a session that
\* is in a room's member set has that room in its own room set, and the room
\* is the one the directory holds under its name.
C1_MemberImpliesRoomSet ==
    HubIdle =>
        \A i \in RoomIds : \A c \in robj[i].clients :
            robj[i].name \in crooms[c] /\ InDirectory(i)

\* C2: once a session's teardown has run and the hub has handled every intent
\* it queued, the session is in no room's member set.
C2_ClosedSessionInNoRoom ==
    HubIdle =>
        \A c \in Clients : rpc[c] = "closed" =>
            \A i \in RoomIds : c \notin robj[i].clients

\* C7: a registration rejected because the directory is full leaves the
\* rejected session's room set as it was before its join frame: the room it
\* asked for is not in it.
C7_RejectedJoinLeavesRoomSet ==
    hpc = "register_reject" => hreq.room \notin crooms[hreq.client]

\* C8: once every session has left room n (by a leave frame, or by
\* disconnecting) and the hub has handled the intents, the directory no
\* longer holds n.
C8_EmptyRoomRemoved ==
    HubIdle =>
        \A n \in RoomNames :
            (\A c \in Clients : n \notin crooms[c] \/ rpc[c] = "closed")
                => rooms[n] = NoRoom

\* One session has sent a join for room n and then a chat for n, and no
\* session has sent anything else (the directory was empty: not full).
SoloJoinThenChat(c, n) ==
    /\ nframes = 2
    /\ now = 2
    /\ crooms[c] = {n}
    /\ \A d \in Clients \ {c} : crooms[d] = {}
    /\ \A d \in Clients : rpc[d] = "read"

\* C10: after a solo join then chat, once the hub has handled the intents,
\* the store's history of the room holds exactly that one chat (it was routed
\* to the room, not answered with "room not found").
C10_SoloChatSaved ==
    \A c \in Clients, n \in RoomNames :
        (SoloJoinThenChat(c, n) /\ HubIdle) =>
            /\ Len(store[n]) = 1
            /\ store[n][1].user = Username(c)

\* C3: the fan-out of a chat does not end while a member of the room that is
\* in the fan-out's snapshot, has space in its outbound queue and has not been
\* disconnected is still waiting for the chat: the step that ends the fan-out
\* is the one that places the chat on that member's queue.
C3_ChatReachesEveryMember ==
    [][\A i \in RoomIds : \A c \in Clients :
          ( /\ robj[i].pc = "fanout"
            /\ robj[i].msg.type = MsgChat
            /\ c \in robj[i].pending
            /\ c \in robj[i].clients
            /\ Len(send[c]) < sendBufferSize
            /\ ~done[c]
            /\ robj'[i].pc # "fanout" )
          => send'[c] = Append(send[c], robj[i].msg)]_vars

\* The step places a chat frame on c's outbound queue.
ChatPlaced(c) ==
    /\ Len(send'[c]) > Len(send[c])
    /\ send'[c][Len(send'[c])].type = MsgChat

\* The frame the step placed on c's outbound queue.
LastPlaced(c) == send'[c][Len(send'[c])]

MaxRoomsReached == ErrorMessage("max rooms reached")

\* The hub takes a Register for a name the directory does not hold while the
\* directory holds maxRooms rooms.
RegisterAtCapacity ==
    /\ hpc = "select"
    /\ hpc' \in {"join", "register_reject"}
    /\ rooms[Head(register).room] = NoRoom
    /\ LenRooms = maxRooms

\* The hub completes the rejection of a registration (or fails in it).
RejectStep == hpc = "register_reject" /\ (hpc' # "register_reject" \/ crashed')

\* C6 as stated: the directory never holds more than maxRooms rooms; a
\* Register for an absent name at capacity creates no room, and its rejection
\* places one "max rooms reached" frame on the registering session's queue
\* and changes no other queue.
C6_RejectDeliversError ==
    /\ [](LenRooms <= maxRooms)
    /\ [][/\ RegisterAtCapacity
             => hpc' = "register_reject" /\ rooms' = rooms /\ robj' = robj
          /\ RejectStep
             => /\ rooms' = rooms /\ robj' = robj
                /\ send' = [send EXCEPT ![hreq.client] =
                              Append(@, MaxRoomsReached)]]_vars

\* C6, amended: the directory never holds more than maxRooms rooms; a Register
\* for an absent name at capacity creates no room, and its rejection changes
\* no queue but the registering session's, on which it places at most one
\* "max rooms reached" frame: exactly one when that queue has space and the
\* session has not been disconnected, none when the queue is full.
C6_AtMostMaxRooms ==
    /\ [](LenRooms <= maxRooms)
    /\ [][/\ RegisterAtCapacity
             => hpc' = "register_reject" /\ rooms' = rooms /\ robj' = robj
          /\ RejectStep
             => LET c == hreq.client
                    delivered == [send EXCEPT ![c] = Append(@, MaxRoomsReached)]
                IN /\ rooms' = rooms /\ robj' = robj
                   /\ send' \in {send, delivered}
                   /\ (Len(send[c]) < sendBufferSize /\ ~done[c])
                      => send' = delivered
                   /\ Len(send[c]) >= sendBufferSize => send' = send]_vars

\* A registration was rejected at capacity: the directory holds maxRooms
\* rooms, the hub is back at its select, and the rejected session, which is
\* in no member set, is the only one with the error frame on its queue.
C6_Witness ==
    /\ LenRooms = maxRooms
    /\ hpc = "select"
    /\ \E c \in Clients :
         /\ \E k \in DOMAIN send[c] : send[c][k] = MaxRoomsReached
         /\ \A n \in RoomNames : c \notin Members(n)
         /\ \A d \in Clients \ {c} : \A k \in DOMAIN send[d] :
              send[d][k] # MaxRoomsReached

\* Room n is mid-reap: the hub goroutine is in handleUnregister for it, past
\* Room.Leave's removal of the member and before the delete under h.mu.
MidReap(n) == hpc \in {"leave_broadcast", "cleanup"} /\ hreq.r = rooms[n]

\* Room n is mid-create: the hub goroutine is in handleRegister for it, past
\* the insertion under h.mu and before Room.Join has added the first member.
MidCreate(n) == hpc = "join" /\ hreq.r = rooms[n]

\* C9 as stated: every room of the directory has a member or is mid-reap.
C9_MemberOrMidReap ==
    \A n \in RoomNames :
        rooms[n] # NoRoom => (Members(n) # {} \/ MidReap(n))

\* C9, amended: every room of the directory has a member, or is mid-reap, or
\* is mid-create (inserted by handleRegister, its first member not added yet).
C9_MemberOrMidReapOrMidCreate ==
    \A n \in RoomNames :
        rooms[n] # NoRoom => (Members(n) # {} \/ MidReap(n) \/ MidCreate(n))

\* A room of the directory has no member: its last member has left and the
\* hub is about to delete it.
C9_Witness ==
    \E n \in RoomNames :
        /\ rooms[n] # NoRoom
        /\ Members(n) = {}
        /\ hpc = "cleanup"
        /\ hreq.r = rooms[n]
        /\ hreq.client \notin Members(n)

\* C5: a session is written the frames of one room's broadcast queue in the
\* order they entered the queue: when its write loop writes a frame of a room,
\* every frame of that room it wrote before entered the queue earlier.
C5_BroadcastOrderKept ==
    [][\A c \in Clients :
          seen'[c] # seen[c]
          => LET t == Head(send[c]).tag
             IN \A u \in seen[c] : u[1] = t[1] => u[2] < t[2]]_vars

\* A session has been written a frame of a room's broadcast queue and a later
\* frame of the same queue is on its outbound queue.
C5_Witness ==
    \E c \in Clients : \E u \in seen[c] : \E k \in DOMAIN send[c] :
        /\ send[c][k].tag[1] = u[1]
        /\ send[c][k].tag[2] > u[2]

\* C11: a live session whose room set does not hold room n (its joins and
\* leaves for n ended with a leave) is not in the member set of n once the hub
\* has handled the intents.
C11_LeftSessionNotMember ==
    HubIdle =>
        \A c \in Clients, n \in RoomNames :
            (rpc[c] = "read" /\ n \notin crooms[c]) => c \notin Members(n)

\* The hub takes an Unregister of a session that is not in the member set of
\* the room the directory holds under the name.
LeaveOfNonMember ==
    /\ hpc = "select"
    /\ unregister # <<>>
    /\ unregister' = Tail(unregister)
    /\ rooms[Head(unregister).room] # NoRoom
    /\ Head(unregister).client \notin Members(Head(unregister).room)

\* C12: an Unregister of a non-member changes no member set and starts no
\* leave notification: the hub is back at its select with the room as it was.
C12_LeaveOfNonMemberNoOp ==
    [][LeaveOfNonMember => (robj' = robj /\ hpc' = "select")]_vars

\* A step that ends the process from a state in which h.quit is closed and no
\* session has closed its outbound queue: no Send can panic there, so the
\* panic is the close(h.quit) of a later call of Hub.Stop.
StopAgainPanics ==
    /\ hquit
    /\ \A c \in Clients : ~sendClosed[c]
    /\ ~crashed
    /\ crashed'

\* C13: a second or later call of Hub.Stop has no ill effect: it never panics,
\* and the hub stays stopped as the first call left it.
C13_StopIdempotent ==
    [][~StopAgainPanics /\ (hquit => hquit')]_vars

\* The hub is about to reap a room that the sweep of Hub.Stop has stopped
\* already: the second call of Room.Stop on that room.
ReapAfterSweep ==
    /\ ~crashed
    /\ hpc = "cleanup"
    /\ ClientCount(hreq.r) = 0
    /\ robj[hreq.r].stopOnce
    /\ robj[hreq.r].quit

StopComplete ==
    /\ ~crashed
    /\ hquit
    /\ hpc = "exited"
    /\ \A k \in Stoppers : spc[k] # "sweep"

\* C15: after Hub.Stop the hub loop and the fan-out loop of every room exit,
\* also when intents are queued or being handled at the time: once Hub.Stop
\* has done all it does, every room's Run has returned or has been told to.
C15_StopEndsEveryLoop ==
    StopComplete =>
        \A i \in RoomIds : robj[i].pc \in {"free", "exited"} \/ robj[i].quit

\* C16: once teardown has marked a session disconnected (c.done closed), a
\* Send on it is a no-op: no frame is added to its outbound queue, and no Send
\* panics (a panic of Send in the hub goroutine ends the process, and nothing
\* else does in a run without Hub.Stop).
C16_SendAfterDoneNoOp ==
    [][/\ \A c \in Clients : done[c] => Len(send'[c]) <= Len(send[c])
       /\ ~crashed'
      ]_vars

\* C17: a panic of Send inside Room.Run is recovered and the fan-out loop goes
\* on: the Run goroutine of a room returns only when the room was stopped, so
\* that frames placed on r.broadcast later are still dequeued.
C17_FanoutSurvivesPanic ==
    \A i \in RoomIds : robj[i].pc = "exited" => robj[i].quit

\* Room object i is in a fan-out whose snapshot still holds a session with a
\* full outbound queue, and its Run goroutine takes a step: the next Send.
FanoutStepWithFull(i) ==
    /\ robj[i].pc = "fanout"
    /\ InDirectory(i)
    /\ \E c \in robj[i].pending : Len(send[c]) >= sendBufferSize
    /\ robj'[i].pending # robj[i].pending \/ robj'[i].pc # "fanout"

\* C18: a fan-out that meets a member with a full outbound queue drops the
\* frame for that member and is not stopped by it: the full queue is left as
\* it is, and Run goes on to the other members of the snapshot (it is at the
\* next Send or back at its select, it has not returned).
C18_FullQueueDropsOnly ==
    [][\A i \in RoomIds : FanoutStepWithFull(i) =>
            /\ \A c \in robj[i].pending :
                   Len(send[c]) >= sendBufferSize => send'[c] = send[c]
            /\ robj'[i].pc \in {"fanout", "select"}
      ]_vars

\* How far the teardown of a session has come: 0 before it, 1 in the
\* Unregister loop, 2 after close(c.send), 3 after c.conn.Close().
TeardownStage(pc) ==
    CASE pc = "teardown" -> 1
      [] pc = "closing" -> 2
      [] pc = "closed" -> 3
      [] OTHER -> 0

LeaveOwed(i) ==
    /\ InDirectory(i)
    /\ \E k \in 1 .. Len(robj[i].broadcast) : \E c \in Clients :
         /\ robj[i].broadcast[k].type = MsgLeave
         /\ robj[i].broadcast[k].user = Username(c)
         /\ done[c] /\ robj[i].name \in crooms[c]
         /\ \E d \in robj[i].clients \ {c} : ~done[d]

\* C20: when a member of a room disconnects while others remain, every
\* remaining member receives the leave frame in the end: while the leave
\* notification is on r.broadcast and a connected member remains, the Run
\* goroutine that has to deliver it has not returned.
C20_LeaveReachesRemaining ==
    \A i \in RoomIds : LeaveOwed(i) => robj[i].pc # "exited"

\* The broadcast queue of room object i holds the join notification of a
\* session that is a member, while a connected session is a member.
JoinOwed(i) ==
    /\ InDirectory(i)
    /\ \E k \in 1 .. Len(robj[i].broadcast) : \E c \in robj[i].clients :
         /\ robj[i].broadcast[k].type = MsgJoin
         /\ robj[i].broadcast[k].user = Username(c)
    /\ \E d \in robj[i].clients : ~done[d]

\* The hub step of Room.Join that adds the joiner to the member set.
JoinAdds ==
    hpc = "join" /\ hpc' # "join" /\ ~crashed'

\* The hub step of Room.Join that sends on r.broadcast.
JoinNotifies ==
    hpc = "join_broadcast" /\ hpc' # "join_broadcast" /\ ~crashed'

\* C21: Room.Join adds the joiner to the member set and places one join
\* notification on r.broadcast, and the notification is delivered to every
\* member: while it is on r.broadcast and a connected member remains, the Run
\* goroutine that has to deliver it has not returned.
C21_JoinNotified ==
    /\ [][/\ JoinAdds => robj'[hreq.r].clients = robj[hreq.r].clients \cup {hreq.client}
          /\ JoinNotifies =>
                /\ Len(robj'[hreq.r].broadcast) = Len(robj[hreq.r].broadcast) + 1
                /\ LET f == robj'[hreq.r].broadcast[Len(robj'[hreq.r].broadcast)]
                   IN f.type = MsgJoin /\ f.room = hreq.room
                      /\ f.user = Username(hreq.client)
         ]_vars
    /\ [](\A i \in RoomIds : JoinOwed(i) => robj[i].pc # "exited")

\* The frame at the tail of the outbound queue of c after the step.
Tail1(c) == send'[c][Len(send'[c])]

\* C22: on join the presence frame goes to the joiner only, lists the user
\* names of the members at that moment, the joiner's own among them, and comes
\* after the history frame of the same join: Room.Join passes from the member
\* set to the history frame (if any), to the join notification, to the
\* presence frame, and each of the two frames is sent in its own step only.
C22_PresenceToJoiner ==
    [][/\ (hpc = "join_presence" /\ hpc' # hpc) =>
             /\ hpc' = "select"
             /\ \A d \in Clients \ {hreq.client} : send'[d] = send[d]
             /\ send'[hreq.client] # send[hreq.client] =>
                   /\ send'[hreq.client] = Append(send[hreq.client], Tail1(hreq.client))
                   /\ Tail1(hreq.client).type = MsgPresence
                   /\ Tail1(hreq.client).room = robj[hreq.r].name
                   /\ Tail1(hreq.client).users =
                          { Username(d) : d \in robj[hreq.r].clients }
                   /\ Username(hreq.client) \in Tail1(hreq.client).users
       /\ (hpc = "join" /\ hpc' # hpc) =>
             /\ hpc' \in {"join_history", "join_broadcast"}
             /\ send' = send
       /\ (hpc = "join_history" /\ hpc' # hpc) =>
             /\ hpc' = "join_broadcast"
             /\ send'[hreq.client] # send[hreq.client] =>
                   Tail1(hreq.client).type = MsgHistory
       /\ (hpc = "join_broadcast" /\ hpc' # hpc) =>
             (hpc' = "join_presence" /\ send' = send)
       /\ \A c \in Clients :
             (Len(send'[c]) > Len(send[c]) /\ Tail1(c).type = MsgPresence)
                 => hpc = "join_presence"
       /\ \A c \in Clients :
             (Len(send'[c]) > Len(send[c]) /\ Tail1(c).type = MsgHistory)
                 => hpc = "join_history"
      ]_vars

\* A joiner has its presence frame in its outbound queue, with its own name
\* and another member's, in a room that has history.
C22_Witness ==
    \E c \in Clients :
        /\ send[c] # <<>>
        /\ send[c][1].type = MsgPresence
        /\ send[c][1].users = {"alice", "bob"}
        /\ store[send[c][1].room] # <<>>

\* Frame f is the history frame the claim describes for `room`: with n rows
\* saved and limit L it carries the min(n, L) rows with the latest timestamps,
\* oldest first.
HistoryFrameRight(f, room) ==
    LET rows == store[room]
        k == IF Len(rows) < maxHistory THEN Len(rows) ELSE maxHistory
    IN /\ f.type = MsgHistory
       /\ f.room = room
       /\ Len(f.messages) = k
       /\ Len(f.messages) <= maxHistory
       /\ \A j \in 1 .. Len(f.messages) - 1 :
             f.messages[j].timestamp <= f.messages[j + 1].timestamp
       /\ \A j \in 1 .. Len(f.messages) :
             \E r \in 1 .. Len(rows) : rows[r] = f.messages[j]
       /\ \A r \in 1 .. Len(rows) :
             (\A j \in 1 .. Len(f.messages) : rows[r] # f.messages[j]) =>
                 \A j \in 1 .. Len(f.messages) :
                     rows[r].timestamp <= f.messages[j].timestamp

\* C23: a join to a room with n saved messages sends the joiner one history
\* frame when n > 0 and none when n = 0; the frame carries the min(n, L) most
\* recent saved messages of the room, oldest first, never more than
\* MaxHistory; history frames are sent to a joiner in that step only.
C23_HistoryOnJoin ==
    [][/\ (hpc = "join" /\ hpc' # hpc) =>
             /\ hpc' \in {"join_history", "join_broadcast"}
             /\ hpc' = "join_history" <=> Len(store[hreq.room]) > 0
       /\ (hpc = "join_history" /\ hpc' # hpc) =>
             /\ hpc' = "join_broadcast"
             /\ send'[hreq.client] # send[hreq.client] =>
                   HistoryFrameRight(Tail1(hreq.client), hreq.room)
       /\ \A c \in Clients :
             (Len(send'[c]) > Len(send[c]) /\ Tail1(c).type = MsgHistory)
                 => (hpc = "join_history" /\ c = hreq.client)
      ]_vars

\* The hub goroutine is inside a Room.Join whose call of History returned an
\* error.
JoinAfterHistoryError ==
    hpc \in {"join_broadcast", "join_presence"} /\ hreq.err

\* C24: when History fails during a join, the joiner gets no history frame
\* and the join completes all the same: the joiner is in the member set, the
\* join notification goes on r.broadcast, and the presence frame is sent.
C24_JoinSurvivesHistoryError ==
    [][/\ (hpc = "join" /\ hpc' # hpc) =>
             /\ hpc' \in {"join_history", "join_broadcast"}
             /\ hreq'.err => hpc' = "join_broadcast"
             /\ hreq.client \in robj'[hreq.r].clients
       /\ JoinAfterHistoryError =>
             \A c \in Clients :
                 Len(send'[c]) > Len(send[c]) => Tail1(c).type # MsgHistory
       /\ (JoinAfterHistoryError /\ hpc' # hpc) =>
             /\ hreq.client \in robj[hreq.r].clients
             /\ hpc = "join_broadcast" =>
                   /\ hpc' = "join_presence" /\ hreq' = hreq
                   /\ robj'[hreq.r].broadcast =
                          Append(robj[hreq.r].broadcast,
                                 Message(MsgJoin, hreq.room, Username(hreq.client), "", 0))
             /\ hpc = "join_presence" =>
                   /\ hpc' = "select"
                   /\ send'[hreq.client] # send[hreq.client] =>
                         /\ Tail1(hreq.client).type = MsgPresence
                         /\ Username(hreq.client) \in Tail1(hreq.client).users
      ]_vars

\* History failed for a join to a room that has saved messages, and the join
\* has come to its presence frame with the notification on r.broadcast.
C24_Witness ==
    /\ hpc = "join_presence"
    /\ hreq.err
    /\ store[hreq.room] # <<>>
    /\ hreq.client \in robj[hreq.r].clients
    /\ \E k \in 1 .. Len(robj[hreq.r].broadcast) :
         /\ robj[hreq.r].broadcast[k].type = MsgJoin
         /\ robj[hreq.r].broadcast[k].user = Username(hreq.client)

\* The hub goroutine takes a chat for a room of the directory from h.message.
RoutesToRoom ==
    /\ hpc = "select" /\ ~crashed
    /\ message # <<>> /\ message' = Tail(message)
    /\ rooms[Head(message).message.room] # NoRoom

\* C25: when Save fails while a chat is routed to a room of the directory,
\* the chat is broadcast all the same; the step differs from the one of a
\* successful Save only in that the message is not added to the store.
C25_BroadcastSurvivesSaveError ==
    [][/\ RoutesToRoom =>
             LET msg == Head(message).message IN
             /\ hpc' = "message_broadcast"
             /\ hreq'.msg = msg /\ hreq'.r = rooms[msg.room]
             /\ IF hreq'.err THEN store' = store
                ELSE store' = [store EXCEPT ![msg.room] = Append(@, msg)]
             /\ robj' = robj /\ send' = send /\ rooms' = rooms
       /\ (hpc = "message_broadcast" /\ hpc' # hpc) =>
             /\ hpc' = "select"
             /\ robj'[hreq.r].broadcast = Append(robj[hreq.r].broadcast, hreq.msg)
             /\ store' = store
      ]_vars

\* A chat that is not in the store is in a session's outbound queue.
C25_Witness ==
    \E c \in Clients :
        /\ send[c] # <<>>
        /\ send[c][1].type = MsgChat
        /\ \A k \in 1 .. Len(store[send[c][1].room]) :
              store[send[c][1].room][k] # send[c][1]

\* The hub goroutine takes a chat for a room that is not in the directory
\* from h.message.
RoutesToNoRoom ==
    /\ hpc = "select" /\ ~crashed
    /\ message # <<>> /\ message' = Tail(message)
    /\ rooms[Head(message).message.room] = NoRoom

Rejected(c, text) ==
    /\ UNCHANGED <<register, unregister, message, rpc, rpend>>
    /\ UNCHANGED <<store, robj, rooms, crooms, connClosed, sendClosed>>
    /\ \A d \in Clients \ {c} : send'[d] = send[d]
    /\ \/ send'[c] = Append(send[c], ErrorMessage(text))
       \/ /\ send'[c] = send[c]
          /\ Len(send[c]) >= sendBufferSize \/ done[c]

\* A chat frame with room and text, for a room that is not in the room set of
\* session c.
NotInRoomChat(c, f) ==
    /\ Decodes(f) /\ f.type = MsgChat
    /\ f.room # "" /\ f.text # ""
    /\ f.room \notin crooms[c]

ClientError(c, f) ==
    /\ f # NotJSON
    /\ \/ f.type \notin {MsgJoin, MsgLeave, MsgChat}
       \/ f.room = ""
       \/ f.type = MsgChat /\ f.text = ""
       \/ f.type = MsgChat /\ f.room \notin crooms[c]

\* A join frame for a room that is not in the room set of session c.
NewJoin(c, f) ==
    /\ f # NotJSON /\ f.type = MsgJoin
    /\ f.room # "" /\ f.room \notin crooms[c]

\* handleMessage of a new join: the room is in the session's rooms and one
\* Register for it is on h.register, or the read loop waits in Hub.Register
\* with it while the channel is full.
Registers(c, room) ==
    /\ crooms'[c] = crooms[c] \cup {room}
    /\ \/ /\ register' = Append(register, [client |-> c, room |-> room])
          /\ rpc'[c] = "read" /\ rpend' = rpend
       \/ /\ register' = register /\ Len(register) >= hubChanBuffer
          /\ rpc'[c] = "register"
          /\ rpend'[c].req = [client |-> c, room |-> room]
    /\ UNCHANGED <<unregister, message, send, store, robj, rooms>>

RepeatedJoin(c, f) ==
    /\ f # NotJSON /\ f.type = MsgJoin
    /\ f.room # "" /\ f.room \in crooms[c]

\* C29: a join frame for a room that is in the session's room set is ignored
\* without a word: no Register (nor any other intent) is queued, no outbound
\* queue gets a frame, and no member set, room or directory entry changes; a
\* join for a room outside the room set adds the room to it and queues
\* exactly one Register.
C29_RepeatedJoinIgnored ==
    [][\A c \in Clients : \A f \in ErrFrames[c] :
         /\ (ReadMessage(c, f) /\ RepeatedJoin(c, f)) =>
                /\ UNCHANGED <<register, unregister, message, rpc, rpend>>
                /\ UNCHANGED <<send, robj, rooms, store, crooms>>
         /\ (ReadMessage(c, f) /\ NewJoin(c, f)) =>
                /\ Registers(c, f.room)
                /\ Len(register') + (IF rpc'[c] = "register" THEN 1 ELSE 0)
                      = Len(register) + 1
      ]_vars

\* A session has read two frames and is a member of the one room it has in
\* its room set, with no intent of it queued, waiting or being handled: the
\* run in which it wrote the join of that room twice ends here.
C29_Witness ==
    \E c \in Clients :
        /\ nframes = 2
        /\ crooms[c] = {"r1"} /\ Members("r1") = {c}
        /\ \A d \in Clients \ {c} : crooms[d] = {} /\ rpc[d] = "read"
        /\ HubIdle
        /\ store["r1"] = <<Message(MsgChat, "r1", "bob", "hello", 0)>>

\* m is a chat in the name of session c, with room, user, text and timestamp.
Stamped(m, c) ==
    /\ m.type = MsgChat
    /\ m.user = Username(c) /\ m.user # ""
    /\ m.room # "" /\ m.text # ""
    /\ m.timestamp >= 1

\* A chat frame that handleMessage of session c routes.
RoutedChat(c, f) ==
    /\ f.type = MsgChat /\ f.room # "" /\ f.text # ""
    /\ f.room \in crooms[c]

\* handleMessage(f) of session c hands Hub.RouteMessage the chat of f in the
\* session's name, stamped with the time of the call: it is the newest entry
\* of h.message, or the read loop holds it while the channel is full.
RoutesAs(c, f) ==
    LET req == IF rpc'[c] = "route" THEN rpend'[c].req
               ELSE message'[Len(message')]
    IN /\ rpc'[c] = "route" \/ message' = Append(message, req)
       /\ req.sender = c
       /\ req.message.user = Username(c)
       /\ req.message.room = f.room /\ req.message.text = f.text
       /\ req.message.timestamp = now

\* C30: every chat the hub saves or broadcasts for a session carries that
\* session's own display name as user, whatever user the inbound frame had,
\* and a room, a user, a text and a timestamp: so it leaves handleMessage, so
\* it waits on h.message, and the hub saves and broadcasts it as it came.
C30_UserStamped ==
    /\ [](/\ \A k \in DOMAIN message : Stamped(message[k].message, message[k].sender)
          /\ \A c \in Clients :
                rpc[c] = "route" => Stamped(rpend[c].req.message, c)
          /\ hpc = "message_broadcast" => Stamped(hreq.msg, hreq.client))
    /\ [][/\ \A c \in Clients : \A f \in SpoofFrames[c] :
             (ReadMessage(c, f) /\ RoutedChat(c, f)) => RoutesAs(c, f)
          /\ (hpc = "select" /\ hpc' = "message_broadcast") =>
                /\ hreq'.msg = Head(message).message
                /\ hreq'.client = Head(message).sender
                /\ \/ store' = store
                   \/ store' = [store EXCEPT ![hreq'.msg.room] =
                                   Append(@, hreq'.msg)]
          /\ (hpc = "message_broadcast" /\ hpc' = "select") =>
                robj'[hreq.r].broadcast =
                    Append(robj[hreq.r].broadcast, hreq.msg)
          ]_vars

\* The store holds a chat of this run in r1 and the room has passed one on to
\* its member: both carry the name of the session that wrote it.
C30_Witness ==
    /\ Len(store["r1"]) = 2
    /\ Stamped(store["r1"][2], "c1")
    /\ send["c1"] = <<store["r1"][2]>>

\* The last n entries of a sequence (all of it when it has no more).
LastOf(q, n) == IF Len(q) > n THEN SubSeq(q, Len(q) - n + 1, Len(q)) ELSE q

\* C31: Store.History(room, limit) returns at most limit messages: the ones
\* of that room that were persisted last, and none of another room, with
\* created_at never decreasing along the result, whatever Save calls came
\* before.
C31_HistoryMostRecent ==
    got.called =>
        LET h == got.msgs
            persisted == store[got.room]
        IN /\ Len(h) <= got.limit
           /\ \A k \in DOMAIN h : h[k].room = got.room
           /\ { h[k] : k \in DOMAIN h } =
                  { LastOf(persisted, got.limit)[k] :
                        k \in DOMAIN LastOf(persisted, got.limit) }
           /\ \A j, k \in DOMAIN h : j < k => h[j].timestamp <= h[k].timestamp

\* The step takes room n out of the directory or stops it.
Reaps(n) ==
    /\ rooms[n] # NoRoom
    /\ \/ rooms'[n] # rooms[n]
       \/ robj'[rooms[n]].quit /\ ~robj[rooms[n]].quit

\* C32: handleUnregister takes a room out of the directory and stops it only
\* when the room has no member: a room with a member is never removed or
\* stopped by an Unregister, whatever Register is queued or handled around
\* it, and the room the last member has left is removed by the cleanup.
C32_ReapOnlyEmpty ==
    [][/\ \A n \in RoomNames :
            Reaps(n) => /\ hpc = "cleanup" /\ hreq.room = n
                        /\ robj[rooms[n]].clients = {}
                        /\ rooms'[n] = NoRoom
       /\ (hpc = "cleanup" /\ hpc' = "select") =>
            IF robj[hreq.r].clients = {}
            THEN rooms'[hreq.room] = NoRoom
            ELSE rooms' = rooms /\ robj' = robj
      ]_vars

\* The cleanup of an Unregister is about to remove a room while a Register
\* for the same name waits on h.register.
C32_Witness ==
    /\ hpc = "cleanup" /\ ~crashed
    /\ robj[hreq.r].clients = {}
    /\ rooms[hreq.room] = hreq.r
    /\ \E k \in DOMAIN register : register[k].room = hreq.room

TeardownWaits(c) ==
    /\ ~crashed
    /\ rpc[c] = "teardown"
    /\ rpend[c].rooms # {}
    /\ Full("unregister")

\* C34: the teardown of a session whose read loop has exited completes in
\* every state of the hub. It completes only if every send of its loop on
\* h.unregister does, and only Hub.Run receives from that channel: so no
\* teardown may wait on the full channel once Hub.Run has returned.
C34_TeardownCompletes ==
    \A c \in Clients : TeardownWaits(c) => hpc # "exited"

\* A Register of session c for room n waits on h.register.
RegisterQueued(c, n) ==
    \E k \in DOMAIN register : register[k] = [client |-> c, room |-> n]

\* A RouteMessage of session c for room n waits on h.message.
MessageQueued(c, n) ==
    \E k \in DOMAIN message :
        message[k].sender = c /\ message[k].message.room = n

\* C35: the hub handles the intents of one session for one room in the order
\* the session issued them: when Run takes a RouteMessage or an Unregister,
\* no Register of the same session for the same room is still waiting, and
\* when it takes an Unregister no RouteMessage of them is (in a run in which
\* every waiting Register and RouteMessage was issued before).
C35_IntentsInOrder ==
    [][/\ (message # <<>> /\ message' = Tail(message)) =>
            ~RegisterQueued(Head(message).sender, Head(message).message.room)
       /\ (unregister # <<>> /\ unregister' = Tail(unregister)) =>
            /\ ~RegisterQueued(Head(unregister).client, Head(unregister).room)
            /\ ~MessageQueued(Head(unregister).client, Head(unregister).room)
      ]_vars

\* C36: a chat is saved and broadcast into a room only if its sender is in
\* the room's member set when the hub handles the RouteMessage.
C36_OnlyMembersChat ==
    [][(hpc = "select" /\ hpc' = "message_broadcast") =>
          Head(message).sender \in Members(Head(message).message.room)
      ]_vars

\* The hub goroutine is inside Room.Join, Room.Leave or Room.Broadcast, at
\* the send on r.broadcast, and the queue is full.
HubWaitsOnRoom ==
    /\ ~crashed /\ ~hquit
    /\ hpc \in {"join_broadcast", "leave_broadcast", "message_broadcast"}
    /\ Len(robj[hreq.r].broadcast) >= roomBroadcastBuffer

\* C37: while the hub is not stopped its loop never blocks for ever: a send
\* on a room's full broadcast queue completes because the room's Run keeps
\* draining the queue, so the Run of a room the hub waits on has not returned.
C37_HubNeverStuck ==
    HubWaitsOnRoom => robj[hreq.r].pc # "exited"

\* Room object i still owes member c the frame m as a live broadcast: m waits
\* on r.broadcast, or Run is fanning it out and c is in the snapshot.
StillToCome(i, c, m) ==
    /\ c \in robj[i].clients
    /\ \/ \E k \in DOMAIN robj[i].broadcast : robj[i].broadcast[k] = m
       \/ robj[i].pc = "fanout" /\ robj[i].msg = m /\ c \in robj[i].pending

\* C38: a joining session never gets a chat twice, in its history frame and
\* as a live broadcast: no chat of a history frame in a session's outbound
\* queue is still to come to that session from the room's broadcast queue.
C38_NoChatTwice ==
    \A c \in Clients : \A k \in DOMAIN send[c] :
        send[c][k].type = MsgHistory =>
            \A j \in DOMAIN send[c][k].messages :
                rooms[send[c][k].room] # NoRoom =>
                    ~StillToCome(rooms[send[c][k].room], c, send[c][k].messages[j])

\* Session c is connected and is not a member of room n, no Register of it
\* for n is waiting or being handled, and the directory holds n or has space
\* for it: a Register for n would make it a member.
CouldJoin(c, n) ==
    /\ ~crashed
    /\ rpc[c] = "read"
    /\ c \notin Members(n)
    /\ ~RegisterQueued(c, n)
    /\ ~(hpc # "select" /\ hreq.client = c /\ hreq.room = n)
    /\ rooms[n] # NoRoom \/ LenRooms < maxRooms

\* C39: a session whose join of a room was rejected with "max rooms reached"
\* can join it later: a join frame for a room it is not a member of, read
\* when nothing of an earlier join is under way and the directory has space
\* or holds the room, queues a Register (in a run in which no session writes
\* a leave for a room it joins, so that such a session with the room in its
\* room set is one whose join was rejected).
C39_RejectedCanJoinLater ==
    [][\A c \in Clients : \A f \in OrderFrames[c] :
         (ReadMessage(c, f) /\ f.type = MsgJoin /\ CouldJoin(c, f.room)) =>
            \/ register' = Append(register, [client |-> c, room |-> f.room])
            \/ rpc'[c] = "register"
      ]_vars

\* The hub goroutine is inside Room.Leave(c) of room object i: c is out of
\* the member set and the leave notification is still to be queued.
InLeave(i, c) == hpc = "leave_broadcast" /\ hreq.r = i /\ hreq.client = c

\* C40: once Room.Leave has returned for a session, no frame of the room's
\* broadcast queue is placed on that session's outbound queue, unless it has
\* joined again: every frame a fan-out places on a session's queue goes to a
\* member of the room, or to a session whose Room.Leave has not returned.
C40_NoFrameAfterLeave ==
    [][\A i \in RoomIds : \A c \in Clients :
         (RoomSend(i) /\ send'[c] # send[c]) =>
            c \in robj[i].clients \/ InLeave(i, c)
      ]_vars

====
